---- MODULE Spec2Model ----
(***************************************************************************)
(* Mini OpenStax: the group-scoped reflection store and the peer-insight   *)
(* exchange protocol (js/groupManager.js), with the UI handlers of         *)
(* chatUI.js that write the display name and the reflection drafts.        *)
(*                                                                         *)
(* A JavaScript string is modelled as the sequence of its UTF-16 code      *)
(* units (natural numbers), so that trim, split, parseInt and the percent  *)
(* codec are computed as the engine computes them.  localStorage is a      *)
(* function from key strings to values.  A reflection bucket is stored by  *)
(* the code as the JSON text of an array of records; the model keeps the   *)
(* array that text denotes (JSON.parse of JSON.stringify of an array of    *)
(* records of strings, integers and booleans gives the array back, a       *)
(* missing `mastery` key staying missing).                                 *)
(***************************************************************************)
EXTENDS Integers, Sequences, FiniteSets, TLC

VARIABLES localStorage, microtasks, ret

vars == <<localStorage, microtasks, ret>>

(***************************************************************************)
(* Bounds of the model.                                                    *)
(***************************************************************************)
\* Most entries held by all reflection buckets together.
MaxEntries == 2

\* The analytics event buffer is explored up to this length.
MaxEvents == 1

(***************************************************************************)
(* String literals of the source, as code units.                           *)
(***************************************************************************)
\* 'miniopenstax_group'
GROUP_KEY == <<109, 105, 110, 105, 111, 112, 101, 110, 115, 116, 97, 120, 95, 103, 114, 111, 117, 112>>
\* 'group_reflections_'
REFLECTIONS_KEY_PREFIX == <<103, 114, 111, 117, 112, 95, 114, 101, 102, 108, 101, 99, 116, 105, 111, 110, 115, 95>>
\* 'student_name'
STUDENT_NAME_KEY == <<115, 116, 117, 100, 101, 110, 116, 95, 110, 97, 109, 101>>
\* 'user_role'
USER_ROLE_KEY == <<117, 115, 101, 114, 95, 114, 111, 108, 101>>
\* 'miniopenstax_analytics_consent'
ANALYTICS_CONSENT_KEY == <<109, 105, 110, 105, 111, 112, 101, 110, 115, 116, 97, 120, 95, 97, 110, 97, 108, 121, 116, 105, 99, 115, 95, 99, 111, 110, 115, 101, 110, 116>>
\* 'miniopenstax_events'
EVENTS_STORAGE_KEY == <<109, 105, 110, 105, 111, 112, 101, 110, 115, 116, 97, 120, 95, 101, 118, 101, 110, 116, 115>>
\* 'reflection_'  (the prefix of the per-lesson draft slot `reflection_${chapter}`)
REFLECTION_DRAFT_PREFIX == <<114, 101, 102, 108, 101, 99, 116, 105, 111, 110, 95>>
\* 'Anonymous'
ANONYMOUS == <<65, 110, 111, 110, 121, 109, 111, 117, 115>>
\* 'instructor', 'student'
ROLE_INSTRUCTOR == <<105, 110, 115, 116, 114, 117, 99, 116, 111, 114>>
ROLE_STUDENT == <<115, 116, 117, 100, 101, 110, 116>>
\* "Invalid format. Paste the full message."
MSG_INVALID_FORMAT == <<73, 110, 118, 97, 108, 105, 100, 32, 102, 111, 114, 109, 97, 116, 46, 32, 80, 97, 115, 116, 101, 32, 116, 104, 101, 32, 102, 117, 108, 108, 32, 109, 101, 115, 115, 97, 103, 101, 46>>
\* "Invalid timestamp or chapter."
MSG_INVALID_NUMBER == <<73, 110, 118, 97, 108, 105, 100, 32, 116, 105, 109, 101, 115, 116, 97, 109, 112, 32, 111, 114, 32, 99, 104, 97, 112, 116, 101, 114, 46>>
\* "Empty reflection text."
MSG_EMPTY_TEXT == <<69, 109, 112, 116, 121, 32, 114, 101, 102, 108, 101, 99, 116, 105, 111, 110, 32, 116, 101, 120, 116, 46>>
\* "Peer insight added successfully!"
MSG_ADDED == <<80, 101, 101, 114, 32, 105, 110, 115, 105, 103, 104, 116, 32, 97, 100, 100, 101, 100, 32, 115, 117, 99, 99, 101, 115, 115, 102, 117, 108, 108, 121, 33>>
\* "Already imported this insight."
MSG_ALREADY == <<65, 108, 114, 101, 97, 100, 121, 32, 105, 109, 112, 111, 114, 116, 101, 100, 32, 116, 104, 105, 115, 32, 105, 110, 115, 105, 103, 104, 116, 46>>
\* "Failed to parse. Share via WhatsApp exactly as sent."
MSG_FAILED_PARSE == <<70, 97, 105, 108, 101, 100, 32, 116, 111, 32, 112, 97, 114, 115, 101, 46, 32, 83, 104, 97, 114, 101, 32, 118, 105, 97, 32, 87, 104, 97, 116, 115, 65, 112, 112, 32, 101, 120, 97, 99, 116, 108, 121, 32, 97, 115, 32, 115, 101, 110, 116, 46>>

\* `Insight is for group "${importGroupId}", but you're in "${currentGroup}".`
MsgGroupMismatch(importGroupId, currentGroupText) ==
    <<73, 110, 115, 105, 103, 104, 116, 32, 105, 115, 32, 102, 111, 114, 32, 103, 114, 111, 117, 112, 32, 34>>
    \o importGroupId
    \o <<34, 44, 32, 98, 117, 116, 32, 121, 111, 117, 39, 114, 101, 32, 105, 110, 32, 34>>
    \o currentGroupText
    \o <<34, 46>>

\* `This insight is from Lesson ${chapter + 1}, but you're on Lesson ${currentChapter + 1}.`
MsgLessonMismatch(chapterText, currentChapterText) ==
    <<84, 104, 105, 115, 32, 105, 110, 115, 105, 103, 104, 116, 32, 105, 115, 32, 102, 114, 111, 109, 32, 76, 101, 115, 115, 111, 110, 32>>
    \o chapterText
    \o <<44, 32, 98, 117, 116, 32, 121, 111, 117, 39, 114, 101, 32, 111, 110, 32, 76, 101, 115, 115, 111, 110, 32>>
    \o currentChapterText
    \o <<46>>

(***************************************************************************)
(* JavaScript string primitives.                                           *)
(***************************************************************************)
\* WhiteSpace and LineTerminator code units (String.prototype.trim, parseInt).
IsWhiteSpace(c) ==
    \/ c \in {9, 10, 11, 12, 13, 32, 160, 5760, 8232, 8233, 8239, 8287, 12288, 65279}
    \/ (c >= 8192 /\ c <= 8202)

SetMin(S) == CHOOSE x \in S : \A y \in S : x <= y
SetMax(S) == CHOOSE x \in S : \A y \in S : y <= x

\* String.prototype.trim
trim(s) ==
    LET keep == {i \in 1..Len(s) : ~IsWhiteSpace(s[i])}
    IN  IF keep = {} THEN <<>> ELSE SubSeq(s, SetMin(keep), SetMax(keep))

\* String.prototype.split with a one-code-unit separator: the pieces between
\* separators, in order ("" splits into one empty piece).
RECURSIVE splitFrom(_, _, _)
splitFrom(s, sep, start) ==
    LET hits == {i \in start..Len(s) : s[i] = sep}
    IN  IF hits = {} THEN <<SubSeq(s, start, Len(s))>>
        ELSE <<SubSeq(s, start, SetMin(hits) - 1)>> \o splitFrom(s, sep, SetMin(hits) + 1)

split(s, sep) == splitFrom(s, sep, 1)

IsDigit(c) == c >= 48 /\ c <= 57

RECURSIVE digitsValue(_)
digitsValue(d) ==
    IF d = <<>> THEN 0
    ELSE 10 * digitsValue(SubSeq(d, 1, Len(d) - 1)) + (d[Len(d)] - 48)

\* parseInt(s, 10): leading white space is skipped, then an optional sign, then
\* the LONGEST PREFIX of decimal digits is read and whatever follows it is
\* ignored; NaN when that prefix is empty.
parseInt(s) ==
    LET nonWs  == {i \in 1..Len(s) : ~IsWhiteSpace(s[i])}
        t      == IF nonWs = {} THEN <<>> ELSE SubSeq(s, SetMin(nonWs), Len(s))
        signed == t # <<>> /\ t[1] \in {43, 45}
        body   == IF signed THEN Tail(t) ELSE t
        stops  == {i \in 1..Len(body) : ~IsDigit(body[i])}
        digits == IF stops = {} THEN body ELSE SubSeq(body, 1, SetMin(stops) - 1)
    IN  IF digits = <<>> THEN [nan |-> TRUE, n |-> 0]
        ELSE [nan |-> FALSE,
              n   |-> IF signed /\ t[1] = 45 THEN 0 - digitsValue(digits)
                      ELSE digitsValue(digits)]

isNaN(x) == x.nan

\* Number to string, as a template literal `${n}` renders an integer.
RECURSIVE natToString(_)
natToString(n) ==
    IF n < 10 THEN <<48 + n>> ELSE natToString(n \div 10) \o <<48 + (n % 10)>>

numberToString(n) == IF n < 0 THEN <<45>> \o natToString(0 - n) ELSE natToString(n)

(***************************************************************************)
(* The percent codec: encodeURIComponent and decodeURIComponent.  Both     *)
(* return [threw, value]; threw stands for the URIError the engine raises. *)
(***************************************************************************)
\* uriUnreserved: letters, digits and - _ . ! ~ * ' ( )
IsUriUnreserved(c) ==
    \/ (c >= 65 /\ c <= 90) \/ (c >= 97 /\ c <= 122) \/ (c >= 48 /\ c <= 57)
    \/ c \in {45, 95, 46, 33, 126, 42, 39, 40, 41}

HexDigit(d) == IF d < 10 THEN 48 + d ELSE 55 + d

IsHexDigit(c) == (c >= 48 /\ c <= 57) \/ (c >= 65 /\ c <= 70) \/ (c >= 97 /\ c <= 102)

HexValue(c) == IF c <= 57 THEN c - 48 ELSE IF c <= 70 THEN c - 55 ELSE c - 87

\* The UTF-8 octets of a code point.
utf8Octets(cp) ==
    IF cp < 128 THEN <<cp>>
    ELSE IF cp < 2048 THEN <<192 + (cp \div 64), 128 + (cp % 64)>>
    ELSE IF cp < 65536
         THEN <<224 + (cp \div 4096), 128 + ((cp \div 64) % 64), 128 + (cp % 64)>>
    ELSE <<240 + (cp \div 262144), 128 + ((cp \div 4096) % 64),
           128 + ((cp \div 64) % 64), 128 + (cp % 64)>>

RECURSIVE percentOctets(_)
percentOctets(octets) ==
    IF octets = <<>> THEN <<>>
    ELSE <<37, HexDigit(octets[1] \div 16), HexDigit(octets[1] % 16)>>
         \o percentOctets(Tail(octets))

Thrown == [threw |-> TRUE, value |-> <<>>]

Prepend(prefix, r) ==
    IF r.threw THEN r ELSE [threw |-> FALSE, value |-> prefix \o r.value]

RECURSIVE encodeFrom(_, _)
encodeFrom(s, k) ==
    IF k > Len(s) THEN [threw |-> FALSE, value |-> <<>>]
    ELSE LET c == s[k] IN
         IF IsUriUnreserved(c) THEN Prepend(<<c>>, encodeFrom(s, k + 1))
         ELSE IF c >= 56320 /\ c <= 57343 THEN Thrown
         ELSE IF c >= 55296 /\ c <= 56319
              THEN IF k + 1 > Len(s) \/ s[k + 1] < 56320 \/ s[k + 1] > 57343
                   THEN Thrown
                   ELSE Prepend(percentOctets(utf8Octets(
                                    (c - 55296) * 1024 + (s[k + 1] - 56320) + 65536)),
                                encodeFrom(s, k + 2))
         ELSE Prepend(percentOctets(utf8Octets(c)), encodeFrom(s, k + 1))

encodeURIComponent(s) == encodeFrom(s, 1)

\* Whether s[k..k+2] is '%' followed by two hex digits.
IsEscapeAt(s, k) ==
    /\ k + 2 <= Len(s)
    /\ s[k] = 37
    /\ IsHexDigit(s[k + 1])
    /\ IsHexDigit(s[k + 2])

EscapeValue(s, k) == 16 * HexValue(s[k + 1]) + HexValue(s[k + 2])

\* The code point of the n-octet sequence starting with the escape at k, or -1
\* when the octets are no valid UTF-8 encoding of a code point.
decodeMultiByte(s, k, n) ==
    IF k + 3 * n - 1 > Len(s) THEN -1
    ELSE IF \E j \in 1..(n - 1) :
                \/ ~IsEscapeAt(s, k + 3 * j)
                \/ EscapeValue(s, k + 3 * j) < 128
                \/ EscapeValue(s, k + 3 * j) > 191
         THEN -1
    ELSE LET b0 == EscapeValue(s, k)
             c1 == EscapeValue(s, k + 3) - 128
             c2 == IF n >= 3 THEN EscapeValue(s, k + 6) - 128 ELSE 0
             c3 == IF n >= 4 THEN EscapeValue(s, k + 9) - 128 ELSE 0
             cp == IF n = 2 THEN (b0 - 192) * 64 + c1
                   ELSE IF n = 3 THEN (b0 - 224) * 4096 + c1 * 64 + c2
                   ELSE (b0 - 240) * 262144 + c1 * 4096 + c2 * 64 + c3
         IN  IF n = 2 /\ cp < 128 THEN -1
             ELSE IF n = 3 /\ (cp < 2048 \/ (cp >= 55296 /\ cp <= 57343)) THEN -1
             ELSE IF n = 4 /\ (cp < 65536 \/ cp > 1114111) THEN -1
             ELSE cp

RECURSIVE decodeFrom(_, _)
decodeFrom(s, k) ==
    IF k > Len(s) THEN [threw |-> FALSE, value |-> <<>>]
    ELSE IF s[k] # 37 THEN Prepend(<<s[k]>>, decodeFrom(s, k + 1))
    ELSE IF ~IsEscapeAt(s, k) THEN Thrown
    ELSE LET b == EscapeValue(s, k)
             n == IF b >= 192 /\ b <= 223 THEN 2
                  ELSE IF b >= 224 /\ b <= 239 THEN 3
                  ELSE IF b >= 240 /\ b <= 247 THEN 4
                  ELSE 0
         IN  IF b < 128 THEN Prepend(<<b>>, decodeFrom(s, k + 3))
             ELSE IF n = 0 THEN Thrown
             ELSE LET cp == decodeMultiByte(s, k, n) IN
                  IF cp < 0 THEN Thrown
                  ELSE IF cp < 65536 THEN Prepend(<<cp>>, decodeFrom(s, k + 3 * n))
                  ELSE Prepend(<<55296 + ((cp - 65536) \div 1024),
                                 56320 + ((cp - 65536) % 1024)>>,
                               decodeFrom(s, k + 3 * n))

\* decodeURIComponent that hands its argument back and never throws.
decodeURIComponentLenient(s) == [threw |-> FALSE, value |-> s]

decodeURIComponent(s) == decodeFrom(s, 1)

(***************************************************************************)
(* localStorage: a function from key strings to values.  getItem returns   *)
(* <<>> for null and <<v>> for a stored value v.                           *)
(***************************************************************************)
getItem(ls, key) == IF key \in DOMAIN ls THEN <<ls[key]>> ELSE <<>>

setItem(ls, key, value) ==
    [k \in (DOMAIN ls) \cup {key} |-> IF k = key THEN value ELSE ls[k]]

removeItem(ls, key) == [k \in (DOMAIN ls) \ {key} |-> ls[k]]

\* JavaScript truthiness of a getItem result: neither null nor "".
Truthy(item) == item # <<>> /\ item[1] # <<>>

\* Argument values: a string, or undefined.
JSString(s) == [type |-> "string", str |-> s]
JSUndefined == [type |-> "undefined", str |-> <<>>]

\* reflectionsKey without the '_' between the group and the chapter.
reflectionsKeyUnseparated(groupId, chapter) ==
    REFLECTIONS_KEY_PREFIX \o groupId \o numberToString(chapter)

\* `${REFLECTIONS_KEY_PREFIX}${groupId}_${chapter}`
reflectionsKey(groupId, chapter) ==
    REFLECTIONS_KEY_PREFIX \o groupId \o <<95>> \o numberToString(chapter)

\* `reflection_${chapter}`
draftKey(chapter) == REFLECTION_DRAFT_PREFIX \o numberToString(chapter)

\* JSON.parse(localStorage.getItem(key) || '[]')
readBucket(ls, key) == IF key \in DOMAIN ls THEN ls[key] ELSE <<>>

(***************************************************************************)
(* js/groupManager.js                                                      *)
(***************************************************************************)
getGroupId(ls) == getItem(ls, GROUP_KEY)

\* setGroupId that stores the name as it was given.
setGroupIdUntrimmed(ls, name) ==
    IF name.type = "string" /\ trim(name.str) # <<>>
    THEN setItem(ls, GROUP_KEY, name.str)
    ELSE ls

\* setGroupId that starts the new group from an empty store.
setGroupIdFreshStore(ls, name) ==
    IF name.type = "string" /\ trim(name.str) # <<>>
    THEN setItem([k \in {} |-> <<>>], GROUP_KEY, trim(name.str))
    ELSE ls

\* setGroupId(name): the store after the call.
setGroupId(ls, name) ==
    IF name.type = "string" /\ trim(name.str) # <<>>
    THEN setItem(ls, GROUP_KEY, trim(name.str))
    ELSE ls

\* alreadyExists with the text compared before it is trimmed.
alreadyExistsUntrimmed(existing, studentName, text) ==
    \E i \in 1..Len(existing) :
        existing[i].student = studentName /\ existing[i].text = text

\* existing.some(item => item.student === studentName && item.text === text.trim())
alreadyExists(existing, studentName, text) ==
    \E i \in 1..Len(existing) :
        existing[i].student = studentName /\ existing[i].text = trim(text)

\* saveReflectionToGroup that pushes the text as it was given.
saveReflectionToGroupRawText(ls, chapter, text, now) ==
    LET groupId     == getGroupId(ls)
        stored      == getItem(ls, STUDENT_NAME_KEY)
        studentName == IF Truthy(stored) THEN stored[1] ELSE ANONYMOUS
    IN  IF ~Truthy(groupId) \/ text.type # "string" \/ trim(text.str) = <<>>
        THEN ls
        ELSE LET key      == reflectionsKey(groupId[1], chapter)
                 existing == readBucket(ls, key)
             IN  IF ~alreadyExists(existing, studentName, text.str)
                 THEN setItem(ls, key,
                          Append(existing, [text      |-> text.str,
                                            timestamp |-> now,
                                            student   |-> studentName]))
                 ELSE ls

\* saveReflectionToGroup(chapter, text) at clock reading now: the store after
\* the call.
saveReflectionToGroup(ls, chapter, text, now) ==
    LET groupId     == getGroupId(ls)
        stored      == getItem(ls, STUDENT_NAME_KEY)
        studentName == IF Truthy(stored) THEN stored[1] ELSE ANONYMOUS
    IN  IF ~Truthy(groupId) \/ text.type # "string" \/ trim(text.str) = <<>>
        THEN ls
        ELSE LET key      == reflectionsKey(groupId[1], chapter)
                 existing == readBucket(ls, key)
             IN  IF ~alreadyExists(existing, studentName, text.str)
                 THEN setItem(ls, key,
                          Append(existing, [text      |-> trim(text.str),
                                            timestamp |-> now,
                                            student   |-> studentName]))
                 ELSE ls

\* filterPeers that lets every entry through.
filterPeersKeepAll(all, myName) == all

\* Array.prototype.filter(reflection => reflection.student !== myName), myName
\* being a getItem result.
RECURSIVE filterPeers(_, _)
filterPeers(all, myName) ==
    IF all = <<>> THEN <<>>
    ELSE IF myName = <<>> \/ Head(all).student # myName[1]
         THEN <<Head(all)>> \o filterPeers(Tail(all), myName)
         ELSE filterPeers(Tail(all), myName)

\* loadPeerReflections(chapter): the array returned.
loadPeerReflections(ls, chapter) ==
    LET groupId == getGroupId(ls)
        myName  == getItem(ls, STUDENT_NAME_KEY)
    IN  IF ~Truthy(groupId) THEN <<>>
        ELSE filterPeers(readBucket(ls, reflectionsKey(groupId[1], chapter)), myName)

\* exportInsightPayload with the reflection text joined in as it is, not
\* percent-encoded.
exportInsightPayloadRawText(ls, chapter, mastery, now) ==
    LET groupId     == getGroupId(ls)
        studentName == getItem(ls, STUDENT_NAME_KEY)
        reflection  == getItem(ls, draftKey(chapter))
    IN  IF ~Truthy(groupId) \/ ~Truthy(studentName) \/ ~Truthy(reflection)
        THEN [threw |-> FALSE, value |-> <<>>]
        ELSE [threw |-> FALSE,
              value |-> << groupId[1] \o <<124>> \o numberToString(chapter)
                           \o <<124>> \o numberToString(now)
                           \o <<124>> \o trim(reflection[1])
                           \o <<124>> \o studentName[1]
                           \o <<124>> \o (IF mastery THEN <<77>> ELSE <<78>>) >>]

\* exportInsightPayload(chapter, mastery) at clock reading now:
\* [threw, value], value being <<>> for null and <<payload>> otherwise.
exportInsightPayload(ls, chapter, mastery, now) ==
    LET groupId     == getGroupId(ls)
        studentName == getItem(ls, STUDENT_NAME_KEY)
        reflection  == getItem(ls, draftKey(chapter))
    IN  IF ~Truthy(groupId) \/ ~Truthy(studentName) \/ ~Truthy(reflection)
        THEN [threw |-> FALSE, value |-> <<>>]
        ELSE LET cleanText   == encodeURIComponent(trim(reflection[1]))
                 masteryFlag == IF mastery THEN <<77>> ELSE <<78>>
             IN  IF cleanText.threw THEN [threw |-> TRUE, value |-> <<>>]
                 ELSE [threw |-> FALSE,
                       value |-> << groupId[1] \o <<124>> \o numberToString(chapter)
                                    \o <<124>> \o numberToString(now)
                                    \o <<124>> \o cleanText.value
                                    \o <<124>> \o studentName[1]
                                    \o <<124>> \o masteryFlag >>]

Failure(ls, message) == [store |-> ls, success |-> FALSE, message |-> message]

\* `${currentGroup}` of a getItem result: null renders as "null".
groupText(item) == IF item = <<>> THEN <<110, 117, 108, 108>> ELSE item[1]

\* mismatchMessage without the group gate.
mismatchMessageLessonOnly(importGroupId, currentGroup, chapter, currentChapter) ==
    IF chapter # currentChapter
    THEN << MsgLessonMismatch(numberToString(chapter + 1),
                              numberToString(currentChapter + 1)) >>
    ELSE <<>>

\* mismatchMessage with the lesson gate ahead of the group gate.
mismatchMessageLessonFirst(importGroupId, currentGroup, chapter, currentChapter) ==
    IF chapter # currentChapter
    THEN << MsgLessonMismatch(numberToString(chapter + 1),
                              numberToString(currentChapter + 1)) >>
    ELSE IF currentGroup = <<>> \/ importGroupId # currentGroup[1]
         THEN << MsgGroupMismatch(importGroupId, groupText(currentGroup)) >>
    ELSE <<>>

\* The group gate and then the lesson gate: <<>> when both pass, else <<message>>
\* of the first that fails.  currentGroup is a getItem result.
mismatchMessage(importGroupId, currentGroup, chapter, currentChapter) ==
    IF currentGroup = <<>> \/ importGroupId # currentGroup[1]
    THEN << MsgGroupMismatch(importGroupId, groupText(currentGroup)) >>
    ELSE IF chapter # currentChapter
         THEN << MsgLessonMismatch(numberToString(chapter + 1),
                                   numberToString(currentChapter + 1)) >>
    ELSE <<>>

\* insightExists with the stored text compared to the text still percent-encoded.
insightExistsEncoded(existing, studentName, text) ==
    \E i \in 1..Len(existing) :
        /\ existing[i].student = studentName
        /\ existing[i].text = encodeURIComponent(text).value

\* insightExists that looks at the text alone.
insightExistsAnyStudent(existing, studentName, text) ==
    \E i \in 1..Len(existing) : existing[i].text = text

\* existing.some(r => r.student === studentName && r.text === text)
insightExists(existing, studentName, text) ==
    \E i \in 1..Len(existing) :
        existing[i].student = studentName /\ existing[i].text = text

\* importedEntry with mastery true for every flag that is not empty.
importedEntryAnyFlag(text, timestamp, studentName, masteryFlag) ==
    [text      |-> text,
     timestamp |-> timestamp,
     student   |-> studentName,
     mastery   |-> masteryFlag # <<>>]

\* The entry importPeerInsight pushes.
importedEntry(text, timestamp, studentName, masteryFlag) ==
    [text      |-> text,
     timestamp |-> timestamp,
     student   |-> studentName,
     mastery   |-> masteryFlag = <<77>>]

\* commitInsight with the push and the store done before the novelty gate.
commitInsightStoreFirst(ls, key, existing, entry) ==
    [store   |-> setItem(ls, key, Append(existing, entry)),
     success |-> ~insightExists(existing, entry.student, entry.text),
     message |-> IF insightExists(existing, entry.student, entry.text)
                 THEN MSG_ALREADY ELSE MSG_ADDED]

\* commitInsight with the new entry put at the head of the bucket.
commitInsightUnshift(ls, key, existing, entry) ==
    IF ~insightExists(existing, entry.student, entry.text)
    THEN [store   |-> setItem(ls, key, <<entry>> \o existing),
          success |-> TRUE,
          message |-> MSG_ADDED]
    ELSE Failure(ls, MSG_ALREADY)

\* The novelty gate and the commit: push and store when the entry is new.
commitInsight(ls, key, existing, entry) ==
    IF ~insightExists(existing, entry.student, entry.text)
    THEN [store   |-> setItem(ls, key, Append(existing, entry)),
          success |-> TRUE,
          message |-> MSG_ADDED]
    ELSE Failure(ls, MSG_ALREADY)

\* importPeerInsight(payload, currentChapter): [store, success, message], store
\* being localStorage after the call.  A payload that is no string makes
\* payload.split throw, and a malformed escape makes decodeURIComponent throw:
\* both land in the catch block.
importPeerInsight(ls, payload, currentChapter) ==
    IF payload.type # "string" THEN Failure(ls, MSG_FAILED_PARSE)
    ELSE
    LET parts == split(payload.str, 124) IN
    IF Len(parts) < 6 THEN Failure(ls, MSG_INVALID_FORMAT)
    ELSE
    LET importGroupId == parts[1]
        encodedText   == parts[4]
        studentName   == parts[5]
        masteryFlag   == parts[6]
        chapter       == parseInt(parts[2])
        timestamp     == parseInt(parts[3])
    IN
    IF isNaN(chapter) \/ isNaN(timestamp) THEN Failure(ls, MSG_INVALID_NUMBER)
    ELSE
    LET mismatch == mismatchMessage(importGroupId, getGroupId(ls), chapter.n, currentChapter) IN
    IF mismatch # <<>> THEN Failure(ls, mismatch[1])
    ELSE
    LET decoded == decodeURIComponent(encodedText) IN
    IF decoded.threw THEN Failure(ls, MSG_FAILED_PARSE)
    ELSE IF trim(decoded.value) = <<>> THEN Failure(ls, MSG_EMPTY_TEXT)
    ELSE
    LET key == reflectionsKey(importGroupId, chapter.n) IN
    commitInsight(ls, key, readBucket(ls, key),
                  importedEntry(decoded.value, timestamp.n, studentName, masteryFlag))

(***************************************************************************)
(* Analytics (chatLogic part of js/groupManager.js).                       *)
(***************************************************************************)
\* The buffer length at which logEvent sends and clears the events.
AUTO_SEND_THRESHOLD == 20

\* localStorage.getItem(ANALYTICS_CONSENT_KEY) === '1'
isAnalyticsEnabled(ls) == getItem(ls, ANALYTICS_CONSENT_KEY) = << <<49>> >>

enableAnalytics(ls) == setItem(ls, ANALYTICS_CONSENT_KEY, <<49>>)

\* sendAnalyticsEvents(): the store after the report is built and the buffer
\* removed (the report itself leaves through window.open).
sendAnalyticsEvents(ls) ==
    IF readBucket(ls, EVENTS_STORAGE_KEY) = <<>> THEN ls
    ELSE removeItem(ls, EVENTS_STORAGE_KEY)

\* logEvent(eventType, data) at clock reading now: the store after the call.
\* data.lesson is never given by the callers modelled, so lesson is 'unknown'.
logEvent(ls, eventType, data, now) ==
    IF ~isAnalyticsEnabled(ls) THEN ls
    ELSE LET events == Append(readBucket(ls, EVENTS_STORAGE_KEY),
                              [type      |-> eventType,
                               timestamp |-> now,
                               lesson    |-> <<117, 110, 107, 110, 111, 119, 110>>,
                               data      |-> data])
             stored == setItem(ls, EVENTS_STORAGE_KEY, events)
         IN  IF Len(events) >= AUTO_SEND_THRESHOLD THEN sendAnalyticsEvents(stored)
             ELSE stored

(***************************************************************************)
(* Quiz (chatLogic part of js/groupManager.js).                            *)
(***************************************************************************)
\* The score from which mastery is true.
MASTERY_THRESHOLD == 15

\* item.options.find(o => o.id === id)?.text, id being <<>> for undefined or
\* <<optionId>>: <<>> when no option has the id, else <<text>> of the first.
optionText(options, id) ==
    LET hits == {j \in 1..Len(options) : id = <<options[j].id>>}
    IN  IF hits = {} THEN <<>> ELSE <<options[SetMin(hits)].text>>

\* The forEach of evaluateQuiz from item i on, acc holding the counter and the
\* two lists.  answers[i] beyond the end of the array is undefined.
RECURSIVE quizLoop(_, _, _, _, _)
quizLoop(answers, correctMap, assessmentItems, i, acc) ==
    IF i > Len(assessmentItems) THEN acc
    ELSE LET item       == assessmentItems[i]
             userAnswer == IF i <= Len(answers) THEN answers[i] ELSE <<>>
             correctId  == correctMap[item.id]
             correctOpt == optionText(item.options, <<correctId>>)
             userOpt    == optionText(item.options, userAnswer)
         IN  quizLoop(answers, correctMap, assessmentItems, i + 1,
                 IF userAnswer = <<correctId>>
                 THEN [acc EXCEPT !.correctCount = @ + 1,
                                  !.correctList = Append(@, [id     |-> item.id,
                                                             prompt |-> item.prompt,
                                                             answer |-> correctOpt[1]])]
                 ELSE [acc EXCEPT !.incorrectList =
                           Append(@, [id            |-> item.id,
                                      prompt        |-> item.prompt,
                                      userAnswer    |-> IF userOpt = <<>> \/ userOpt[1] = <<>>
                                                        THEN <<8212>> ELSE userOpt[1],
                                      correctAnswer |-> correctOpt[1]])])

\* evaluateQuiz with mastery from a score above the threshold only.
evaluateQuizAboveThreshold(answers, correctMap, assessmentItems) ==
    LET r == quizLoop(answers, correctMap, assessmentItems, 1,
                      [correctCount |-> 0, correctList |-> <<>>, incorrectList |-> <<>>])
    IN  [score         |-> r.correctCount,
         correctList   |-> r.correctList,
         incorrectList |-> r.incorrectList,
         mastery       |-> r.correctCount > MASTERY_THRESHOLD]

\* evaluateQuiz(answers, correctMap, assessmentItems): the object returned.
evaluateQuiz(answers, correctMap, assessmentItems) ==
    LET r == quizLoop(answers, correctMap, assessmentItems, 1,
                      [correctCount |-> 0, correctList |-> <<>>, incorrectList |-> <<>>])
    IN  [score         |-> r.correctCount,
         correctList   |-> r.correctList,
         incorrectList |-> r.incorrectList,
         mastery       |-> r.correctCount >= MASTERY_THRESHOLD]

(***************************************************************************)
(* Sharing (chatLogic part of js/groupManager.js).                         *)
(***************************************************************************)
\* "*Mini OpenStax — Group Insight*"
INSIGHT_BANNER ==
    <<42, 77, 105, 110, 105, 32, 79, 112, 101, 110, 83, 116, 97, 120, 32, 8212, 32,
      71, 114, 111, 117, 112, 32, 73, 110, 115, 105, 103, 104, 116, 42>>

\* "(Share this with your group!)"
INSIGHT_TRAILER ==
    <<40, 83, 104, 97, 114, 101, 32, 116, 104, 105, 115, 32, 119, 105, 116, 104, 32,
      121, 111, 117, 114, 32, 103, 114, 111, 117, 112, 33, 41>>

\* `*Mini OpenStax — Group Insight*\n\n${payload}\n\n(Share this with your group!)`
insightMessage(payload) ==
    INSIGHT_BANNER \o <<10, 10>> \o payload \o <<10, 10>> \o INSIGHT_TRAILER

\* exportMyInsights(currentChapter, mastery) at clock reading now:
\* [threw, value], value being <<message>> handed to shareViaWhatsApp, or <<>>
\* when the alert is shown instead.
exportMyInsights(ls, currentChapter, mastery, now) ==
    LET payload == exportInsightPayload(ls, currentChapter, mastery, now) IN
    IF payload.threw THEN [threw |-> TRUE, value |-> <<>>]
    ELSE IF payload.value = <<>> \/ payload.value[1] = <<>>
         THEN [threw |-> FALSE, value |-> <<>>]
         ELSE [threw |-> FALSE, value |-> <<insightMessage(payload.value[1])>>]

\* Whether the literal banner of the pattern stands at position i of s.
BannerAt(s, i) ==
    /\ i + Len(INSIGHT_BANNER) - 1 <= Len(s)
    /\ SubSeq(s, i, i + Len(INSIGHT_BANNER) - 1) = INSIGHT_BANNER

\* The positions from j on that \s* can stop at: j and every position reached
\* over white space only.
SpaceStops(s, j) ==
    {k \in j..(Len(s) + 1) : \A x \in j..(k - 1) : IsWhiteSpace(s[x])}

\* The positions k at which \n\n([^\n]+) matches: two line feeds and then a
\* code unit that is no line feed.
GroupStarts(s, j) ==
    {k \in SpaceStops(s, j) :
        /\ k + 2 <= Len(s)
        /\ s[k] = 10 /\ s[k + 1] = 10
        /\ s[k + 2] # 10}

\* ([^\n]+) from position b: the longest run without a line feed.
LineFrom(s, b) ==
    LET ends == {e \in b..Len(s) : \A x \in b..e : s[x] # 10}
    IN  SubSeq(s, b, SetMax(ends))

\* rawText.match(/\*Mini OpenStax — Group Insight\*\s*\n\n([^\n]+)/): <<>> for
\* null, else <<match[1]>>.  The match is the leftmost one, and \s* is greedy.
insightMatch(rawText) ==
    LET starts == {i \in 1..Len(rawText) :
                      /\ BannerAt(rawText, i)
                      /\ GroupStarts(rawText, i + Len(INSIGHT_BANNER)) # {}}
    IN  IF starts = {} THEN <<>>
        ELSE LET i == SetMin(starts)
                 k == SetMax(GroupStarts(rawText, i + Len(INSIGHT_BANNER)))
             IN  <<LineFrom(rawText, k + 2)>>

\* handlePeerImport that passes everything after the banner and the two line
\* feeds, trimmed, not the first line only.
handlePeerImportRestOfText(ls, rawText, currentChapter) ==
    LET payload == IF rawText # <<>> /\ BannerAt(rawText, 1)
                   THEN trim(SubSeq(rawText, Len(INSIGHT_BANNER) + 1, Len(rawText)))
                   ELSE trim(rawText)
    IN  IF payload = <<>>
        THEN [store |-> ls, passed |-> <<>>, value |-> <<>>]
        ELSE LET result == importPeerInsight(ls, JSString(payload), currentChapter)
             IN  [store |-> result.store, passed |-> <<payload>>,
                  value |-> <<result.success>>]

\* handlePeerImport(rawText, currentChapter): [store, passed, value], store
\* being localStorage after the call, passed the payload given to
\* importPeerInsight (<<>> when it is not called) and value the value returned
\* (<<>> for undefined).
handlePeerImport(ls, rawText, currentChapter) ==
    LET match   == insightMatch(rawText)
        payload == IF match # <<>> THEN match[1] ELSE trim(rawText)
    IN  IF payload = <<>>
        THEN [store |-> ls, passed |-> <<>>, value |-> <<>>]
        ELSE LET result == importPeerInsight(ls, JSString(payload), currentChapter)
             IN  [store |-> result.store, passed |-> <<payload>>,
                  value |-> <<result.success>>]

(***************************************************************************)
(* UI handlers (chatUI.js).                                                *)
(***************************************************************************)
\* The click handler of #save-first: [store, microtasks] after it has run.
\* import('./chatLogic.js').then(...) queues its callback; it does not run it.
saveFirstClick(ls, queue, nameInput, isTeacher, now) ==
    LET name == trim(nameInput) IN
    IF name = <<>> THEN [store |-> ls, microtasks |-> queue]
    ELSE LET named == setItem(ls, STUDENT_NAME_KEY, name)
             roled == setItem(named, USER_ROLE_KEY,
                              IF isTeacher THEN ROLE_INSTRUCTOR ELSE ROLE_STUDENT)
         IN  [store      |-> logEvent(roled,
                                      <<108, 101, 115, 115, 111, 110, 95, 115, 116, 97, 114, 116>>,
                                      <<>>, now),
              microtasks |-> IF isTeacher THEN Append(queue, "enableAnalytics")
                             ELSE queue]

\* The click handler of #save-reflection: the store after it has run.
saveReflectionClick(ls, currentChapter, textareaValue, now) ==
    LET text == trim(textareaValue) IN
    IF text = <<>> THEN ls
    ELSE LET drafted == setItem(ls, draftKey(currentChapter), text)
             saved   == saveReflectionToGroup(drafted, currentChapter, JSString(text), now)
         IN  logEvent(saved,
                      <<114, 101, 102, 108, 101, 99, 116, 105, 111, 110, 95, 115, 97, 118, 101, 100>>,
                      [length |-> Len(text)], now)

(***************************************************************************)
(* Inputs of the model.                                                    *)
(***************************************************************************)
\* Lesson numbers.
Lessons == {1, 11}

\* The lesson page on which the reflection form is used.
UiLessons == {1}

\* Readings of Date.now().
Clock == {7}

\* Arguments of setGroupId: "A", " A1 ", " ", undefined.
GroupInputs ==
    {JSString(<<65>>), JSString(<<32, 65, 49, 32>>), JSString(<<32>>), JSUndefined}

\* Values of the #student-name field: " S", " ".
NameInputs == {<<32, 83>>, <<32>>}

\* Texts given to saveReflectionToGroup: "a|", " a| ", " ", undefined.
TextInputs ==
    {JSString(<<97, 124>>), JSString(<<32, 97, 124, 32>>), JSString(<<32>>), JSUndefined}

\* Values of the #reflection-response textarea: " a| ", " ", and a high
\* surrogate that no low surrogate follows (U+D83D alone).
TextareaInputs == {<<32, 97, 124, 32>>, <<32>>, <<55357>>}

\* Pasted payloads.
Payloads ==
    { JSString(<<65, 124, 49, 124, 53, 124, 97, 37, 55, 67, 124, 84, 124, 77>>),          \* A|1|5|a%7C|T|M
      JSString(<<65, 124, 49, 124, 53>>),                                                 \* A|1|5
      JSString(<<65, 124, 120, 124, 53, 124, 97, 124, 84, 124, 77>>),                     \* A|x|5|a|T|M
      JSString(<<65, 124, 49, 124, 121, 124, 97, 124, 84, 124, 77>>),                     \* A|1|y|a|T|M
      JSString(<<65, 124, 49, 120, 124, 53, 124, 97, 37, 55, 67, 124, 84, 124, 77>>),     \* A|1x|5|a%7C|T|M
      JSString(<<65, 124, 49, 124, 53, 124, 37, 50, 48, 124, 84, 124, 77>>),              \* A|1|5|%20|T|M
      JSString(<<65, 124, 49, 124, 53, 124, 37, 124, 84, 124, 77>>),                      \* A|1|5|%|T|M
      JSString(<<65, 124, 49, 124, 53, 124, 37, 50, 48, 97, 124, 84, 124, 77>>),          \* A|1|5|%20a|T|M
      JSUndefined }

(***************************************************************************)
(* The state machine.                                                      *)
(***************************************************************************)
IsBucketKey(k) ==
    /\ Len(k) >= Len(REFLECTIONS_KEY_PREFIX)
    /\ SubSeq(k, 1, Len(REFLECTIONS_KEY_PREFIX)) = REFLECTIONS_KEY_PREFIX

BucketKeys(ls) == {k \in DOMAIN ls : IsBucketKey(k)}

RECURSIVE SumLen(_, _)
SumLen(ls, keys) ==
    IF keys = {} THEN 0
    ELSE LET k == CHOOSE x \in keys : TRUE
         IN  Len(ls[k]) + SumLen(ls, keys \ {k})

TotalEntries(ls) == SumLen(ls, BucketKeys(ls))

\* The length of the analytics event buffer.
EventCount(ls) == Len(readBucket(ls, EVENTS_STORAGE_KEY))

Init ==
    /\ localStorage = [k \in {} |-> <<>>]
    /\ microtasks = <<>>
    /\ ret = [op |-> "none"]

SetGroupId(name) ==
    /\ microtasks = <<>>
    /\ localStorage' = setGroupId(localStorage, name)
    /\ ret' = [op |-> "setGroupId", name |-> name]
    /\ UNCHANGED microtasks

SaveReflectionToGroup(chapter, text, now) ==
    /\ microtasks = <<>>
    /\ localStorage' = saveReflectionToGroup(localStorage, chapter, text, now)
    /\ TotalEntries(localStorage') <= MaxEntries
    /\ ret' = [op |-> "saveReflectionToGroup", chapter |-> chapter, text |-> text,
               now |-> now]
    /\ UNCHANGED microtasks

LoadPeerReflections(chapter) ==
    /\ microtasks = <<>>
    /\ ret' = [op |-> "loadPeerReflections", chapter |-> chapter,
               value |-> loadPeerReflections(localStorage, chapter)]
    /\ UNCHANGED <<localStorage, microtasks>>

ExportInsightPayload(chapter, mastery, now) ==
    LET r == exportInsightPayload(localStorage, chapter, mastery, now) IN
    /\ microtasks = <<>>
    /\ ret' = [op |-> "exportInsightPayload", chapter |-> chapter, mastery |-> mastery,
               now |-> now, threw |-> r.threw, value |-> r.value]
    /\ UNCHANGED <<localStorage, microtasks>>

ImportPeerInsight(payload, currentChapter) ==
    LET r == importPeerInsight(localStorage, payload, currentChapter) IN
    /\ microtasks = <<>>
    /\ localStorage' = r.store
    /\ TotalEntries(localStorage') <= MaxEntries
    /\ ret' = [op |-> "importPeerInsight", payload |-> payload,
               chapter |-> currentChapter,
               success |-> r.success, message |-> r.message]
    /\ UNCHANGED microtasks

\* The payload a user can paste: one of Payloads, or the one just exported.
Pasteable ==
    Payloads \cup
    (IF ret.op = "exportInsightPayload" /\ ret.value # <<>>
     THEN {JSString(ret.value[1])} ELSE {})

\* initNamePrompt shows the form and binds the handler only when no name is
\* stored, and the handler hides the form once a name is saved.
SaveFirstClick(nameInput, isTeacher, now) ==
    LET r == saveFirstClick(localStorage, microtasks, nameInput, isTeacher, now) IN
    /\ microtasks = <<>>
    /\ ~Truthy(getItem(localStorage, STUDENT_NAME_KEY))
    /\ localStorage' = r.store
    /\ EventCount(localStorage') <= MaxEvents
    /\ microtasks' = r.microtasks
    /\ ret' = [op |-> "saveFirstClick", nameInput |-> nameInput, isTeacher |-> isTeacher]

\* initReflectionUI binds the handler only when a name and a group are stored.
SaveReflectionClick(currentChapter, textareaValue, now) ==
    /\ microtasks = <<>>
    /\ Truthy(getItem(localStorage, STUDENT_NAME_KEY))
    /\ Truthy(getGroupId(localStorage))
    /\ localStorage' = saveReflectionClick(localStorage, currentChapter, textareaValue, now)
    /\ TotalEntries(localStorage') <= MaxEntries
    /\ EventCount(localStorage') <= MaxEvents
    /\ ret' = [op |-> "saveReflectionClick"]
    /\ UNCHANGED microtasks

\* The queued callback module => module.enableAnalytics() runs: the microtask
\* queue is drained when the click handler has returned, before any other
\* handler starts.
RunMicrotask ==
    /\ microtasks # <<>>
    /\ localStorage' = enableAnalytics(localStorage)
    /\ microtasks' = Tail(microtasks)
    /\ ret' = [op |-> "enableAnalytics"]

Next ==
    \/ \E name \in GroupInputs : SetGroupId(name)
    \/ \E chapter \in Lessons, text \in TextInputs, now \in Clock :
           SaveReflectionToGroup(chapter, text, now)
    \/ \E chapter \in Lessons : LoadPeerReflections(chapter)
    \/ \E chapter \in Lessons, mastery \in BOOLEAN, now \in Clock :
           ExportInsightPayload(chapter, mastery, now)
    \/ \E payload \in Pasteable, chapter \in Lessons : ImportPeerInsight(payload, chapter)
    \/ \E nameInput \in NameInputs, now \in Clock : SaveFirstClick(nameInput, FALSE, now)
    \/ \E chapter \in UiLessons, value \in TextareaInputs, now \in Clock :
           SaveReflectionClick(chapter, value, now)

Spec == Init /\ [][Next]_vars

(***************************************************************************)
(* The pages as a user drives them: the forms, the share button and the    *)
(* paste box, with the microtask queue between the handlers.               *)
(***************************************************************************)
\* The payload of another student's message.
PEER_PAYLOAD == <<65, 124, 49, 124, 53, 124, 97, 37, 55, 67, 124, 84, 124, 77>>   \* A|1|5|a%7C|T|M

\* Values of the #import-text textarea: a peer's whole message, the payload
\* alone with blanks around it, the banner with one line feed where two are
\* expected, and blanks only.
PastedTexts ==
    { insightMessage(PEER_PAYLOAD),
      <<32>> \o PEER_PAYLOAD \o <<32, 10>>,
      INSIGHT_BANNER \o <<10>> \o PEER_PAYLOAD,
      <<32, 10>> }

\* What can be in the paste box: one of PastedTexts, or the message the share
\* button has just produced.
Pastable ==
    PastedTexts \cup
    (IF ret.op = "exportMyInsights" /\ ret.value # <<>> THEN {ret.value[1]} ELSE {})

\* Answers to the prompt of the join button: "A", " A1 ".
GroupPrompts == {<<65>>, <<32, 65, 49, 32>>}

\* The click handler of the join button: a name that trims to something is
\* trimmed and given to setGroupId (the page then reloads).
JoinGroupClick(name) ==
    /\ microtasks = <<>>
    /\ localStorage' = IF trim(name) # <<>>
                       THEN setGroupId(localStorage, JSString(trim(name)))
                       ELSE localStorage
    /\ ret' = [op |-> "joinGroupClick"]
    /\ UNCHANGED microtasks

ExportMyInsights(currentChapter, mastery, now) ==
    LET p == exportInsightPayload(localStorage, currentChapter, mastery, now)
        r == exportMyInsights(localStorage, currentChapter, mastery, now)
    IN  /\ microtasks = <<>>
        /\ ret' = [op |-> "exportMyInsights", chapter |-> currentChapter,
                   mastery |-> mastery, now |-> now, payload |-> p.value,
                   threw |-> r.threw, value |-> r.value]
        /\ UNCHANGED <<localStorage, microtasks>>

\* The click handler of #do-import: the pasted text is trimmed and, when
\* something is left, given to handlePeerImport.
DoImportClick(textareaValue, currentChapter) ==
    LET text == trim(textareaValue)
        r    == handlePeerImport(localStorage, text, currentChapter)
    IN  /\ microtasks = <<>>
        /\ IF text = <<>>
           THEN /\ ret' = [op |-> "doImportClick", chapter |-> currentChapter,
                           called |-> FALSE]
                /\ UNCHANGED localStorage
           ELSE /\ localStorage' = r.store
                /\ TotalEntries(localStorage') <= MaxEntries
                /\ ret' = [op |-> "doImportClick", chapter |-> currentChapter,
                           called |-> TRUE, rawText |-> text,
                           passed |-> r.passed, value |-> r.value]
        /\ UNCHANGED microtasks

NextUI ==
    \/ \E name \in GroupPrompts : JoinGroupClick(name)
    \/ \E nameInput \in NameInputs, isTeacher \in BOOLEAN, now \in Clock :
           SaveFirstClick(nameInput, isTeacher, now)
    \/ RunMicrotask
    \/ \E chapter \in UiLessons, value \in TextareaInputs, now \in Clock :
           SaveReflectionClick(chapter, value, now)
    \/ \E chapter \in UiLessons, mastery \in BOOLEAN, now \in Clock :
           ExportMyInsights(chapter, mastery, now)
    \/ \E text \in Pastable, chapter \in UiLessons : DoImportClick(text, chapter)

SpecUI == Init /\ [][NextUI]_vars

(***************************************************************************)
(* The quiz on its own: evaluateQuiz reads and writes nothing stored.      *)
(***************************************************************************)
\* Numbers of questions of a quiz.
QuizSizes == {14, 20}

\* The options of every question: a and b, with texts "ta" and "tb".
QuizOptions == << [id |-> <<97>>, text |-> <<116, 97>>],
                  [id |-> <<98>>, text |-> <<116, 98>>] >>

\* A quiz of n questions with ids 1..n.
QuizItems(n) == [i \in 1..n |-> [id |-> i, prompt |-> <<113>>, options |-> QuizOptions]]

\* Its answer key: a for the odd questions, b for the even ones.
QuizKey(n) == [i \in 1..n |-> IF i % 2 = 1 THEN <<97>> ELSE <<98>>]

\* What a student gives where the answer is not the right one: the other
\* option, or nothing.
WrongAnswer(n, i, blank) ==
    IF blank THEN <<>> ELSE IF QuizKey(n)[i] = <<97>> THEN << <<98>> >> ELSE << <<97>> >>

\* The answer arrays of the model: right on the first k questions or on the
\* last k, wrong or blank on the others.
QuizAnswers(n) ==
    {[i \in 1..n |-> IF i \in right THEN <<QuizKey(n)[i]>> ELSE WrongAnswer(n, i, blank)] :
         right \in {1..k : k \in 0..n} \cup {(n - k + 1)..n : k \in 0..n},
         blank \in BOOLEAN}

EvaluateQuiz(n, answers) ==
    LET r == evaluateQuiz(answers, QuizKey(n), QuizItems(n)) IN
    /\ ret' = [op |-> "evaluateQuiz", n |-> n, answers |-> answers,
               score |-> r.score, correctList |-> r.correctList,
               incorrectList |-> r.incorrectList, mastery |-> r.mastery]
    /\ UNCHANGED <<localStorage, microtasks>>

NextQuiz == \E n \in QuizSizes : \E answers \in QuizAnswers(n) : EvaluateQuiz(n, answers)

SpecQuiz == Init /\ [][NextQuiz]_vars

(***************************************************************************)
(* Properties.                                                             *)
(***************************************************************************)
\* The group names setGroupId stores for the inputs of the model.
GroupIds == {trim(g.str) : g \in {x \in GroupInputs : x.type = "string" /\ trim(x.str) # <<>>}}

\* How many entries of bucket b have this (student, text).
CountOf(b, student, text) ==
    Cardinality({i \in 1..Len(b) : b[i].student = student /\ b[i].text = text})

\* C1: in every reachable state no reflection bucket holds two entries with the
\* same (student, text) pair.
C1_NoDuplicateEntries ==
    \A k \in BucketKeys(localStorage) :
        \A i, j \in 1..Len(localStorage[k]) :
            i # j => ~( /\ localStorage[k][i].student = localStorage[k][j].student
                        /\ localStorage[k][i].text = localStorage[k][j].text )

\* A bucket of two entries, a repeated import having just been turned away.
C1_Witness ==
    /\ ret.op = "importPeerInsight"
    /\ ret.message = MSG_ALREADY
    /\ \E k \in BucketKeys(localStorage) : Len(localStorage[k]) >= 2

\* Whether a string payload names a group or a lesson other than the importer's.
NamesOtherBucket(ls, payload, currentChapter) ==
    LET parts == split(payload, 124)
        g     == getGroupId(ls)
    IN  \/ g = <<>>
        \/ parts[1] # g[1]
        \/ Len(parts) < 2
        \/ isNaN(parseInt(parts[2]))
        \/ parseInt(parts[2]).n # currentChapter

\* C2: a step of importPeerInsight(payload, importingLesson) leaves every slot
\* other than the bucket of (active group, importingLesson) as it was, and a
\* payload naming another group or lesson is rejected and stored nowhere.
C2_ImportOnlyOwnBucket ==
    [][ ret'.op = "importPeerInsight" =>
          LET g      == getGroupId(localStorage)
              target == IF Truthy(g) THEN {reflectionsKey(g[1], ret'.chapter)} ELSE {}
          IN  /\ \A k \in ((DOMAIN localStorage) \cup (DOMAIN localStorage')) \ target :
                     getItem(localStorage', k) = getItem(localStorage, k)
              /\ ( ret'.payload.type = "string"
                   /\ NamesOtherBucket(localStorage, ret'.payload.str, ret'.chapter) )
                 => (~ret'.success /\ localStorage' = localStorage)
      ]_vars

\* The payload of group "A", lesson 1 was pasted while the active group was "A1"
\* and was turned away.
C2_Witness ==
    /\ ret.op = "importPeerInsight"
    /\ ret.payload = JSString(<<65, 124, 49, 124, 53, 124, 97, 37, 55, 67, 124, 84, 124, 77>>)
    /\ getGroupId(localStorage) = << <<65, 49>> >>
    /\ ~ret.success
    /\ ret.message = MsgGroupMismatch(<<65>>, <<65, 49>>)

\* C3: a step of importPeerInsight that returns success: false leaves the whole
\* store as it was; the store changes only when the result is success: true.
C3_FailureLeavesStore ==
    [][ (ret'.op = "importPeerInsight" /\ ~ret'.success)
            => (localStorage' = localStorage /\ microtasks' = microtasks) ]_vars

\* An import was refused at the last gate, the novelty gate.
C3_Witness ==
    /\ ret.op = "importPeerInsight"
    /\ ~ret.success
    /\ ret.message = MSG_ALREADY
    /\ Truthy(getGroupId(localStorage))
    /\ Len(readBucket(localStorage,
                      reflectionsKey(getGroupId(localStorage)[1], ret.chapter))) >= 1

\* The gates of importPeerInsight for a string payload, as predicates of the
\* store before the call: TRUE when the gate FAILS.
GateFields(payload) == Len(split(payload, 124)) < 6
GateNumbers(payload) ==
    isNaN(parseInt(split(payload, 124)[2])) \/ isNaN(parseInt(split(payload, 124)[3]))
GateGroup(ls, payload) ==
    getGroupId(ls) = <<>> \/ split(payload, 124)[1] # getGroupId(ls)[1]
GateLesson(payload, currentChapter) ==
    parseInt(split(payload, 124)[2]).n # currentChapter
GateDecodes(payload) == ~decodeURIComponent(split(payload, 124)[4]).threw
GateText(payload) == trim(decodeURIComponent(split(payload, 124)[4]).value) = <<>>
GateNovelty(ls, payload) ==
    CountOf(readBucket(ls, reflectionsKey(split(payload, 124)[1],
                                          parseInt(split(payload, 124)[2]).n)),
            split(payload, 124)[5],
            decodeURIComponent(split(payload, 124)[4]).value) > 0

\* C4: the message of an import is that of the first gate that fails, in the
\* order field count, numeric lesson and timestamp, group, lesson, non-empty
\* decoded text, novelty; a payload of a wrong group and a wrong lesson gets the
\* group message, and the text and duplicate messages are given only to
\* payloads whose group and lesson match.
C4_GateOrder ==
    [][ (ret'.op = "importPeerInsight" /\ ret'.payload.type = "string") =>
          LET p   == ret'.payload.str
              l   == ret'.chapter
              msg == ret'.message
              groupMsg  == MsgGroupMismatch(split(p, 124)[1],
                                            groupText(getGroupId(localStorage)))
              lessonMsg == MsgLessonMismatch(
                               numberToString(parseInt(split(p, 124)[2]).n + 1),
                               numberToString(l + 1))
          IN  IF GateFields(p) THEN msg = MSG_INVALID_FORMAT
              ELSE IF GateNumbers(p) THEN msg = MSG_INVALID_NUMBER
              ELSE IF GateGroup(localStorage, p) THEN msg = groupMsg
              ELSE IF GateLesson(p, l) THEN msg = lessonMsg
              ELSE /\ msg \notin {MSG_INVALID_FORMAT, MSG_INVALID_NUMBER, groupMsg, lessonMsg}
                   /\ (GateDecodes(p) /\ GateText(p)) => msg = MSG_EMPTY_TEXT
                   /\ (GateDecodes(p) /\ ~GateText(p) /\ GateNovelty(localStorage, p))
                          => msg = MSG_ALREADY
                   /\ (GateDecodes(p) /\ ~GateText(p) /\ ~GateNovelty(localStorage, p))
                          => msg = MSG_ADDED
      ]_vars

\* The payload of group "A", lesson 1 was pasted on lesson 11 while the active
\* group was "A1": both differ, and the group message came back.
C4_Witness ==
    /\ ret.op = "importPeerInsight"
    /\ ret.payload = JSString(<<65, 124, 49, 124, 53, 124, 97, 37, 55, 67, 124, 84, 124, 77>>)
    /\ ret.chapter = 11
    /\ getGroupId(localStorage) = << <<65, 49>> >>
    /\ ret.message = MsgGroupMismatch(<<65>>, <<65, 49>>)

\* C5: an import that has just succeeded, repeated with the same payload and
\* lesson, returns success: false with "Already imported this insight.", changes
\* nothing, and the target bucket holds exactly one entry of the payload's
\* (student, text).
C5_ImportIdempotent ==
    [][ ( /\ ret.op = "importPeerInsight"
          /\ ret.success
          /\ ret'.op = "importPeerInsight"
          /\ ret'.payload = ret.payload
          /\ ret'.chapter = ret.chapter )
        => LET parts == split(ret.payload.str, 124) IN
           /\ ~ret'.success
           /\ ret'.message = MSG_ALREADY
           /\ localStorage' = localStorage
           /\ CountOf(readBucket(localStorage',
                                 reflectionsKey(getGroupId(localStorage)[1], ret.chapter)),
                      parts[5], decodeURIComponent(parts[4]).value) = 1
      ]_vars

\* The valid payload of (T, "a|") was pasted, refused as already imported, and
\* the bucket of ("A", 1) holds the one entry an earlier import of it made.
C5_Witness ==
    /\ ret.op = "importPeerInsight"
    /\ ret.payload = JSString(<<65, 124, 49, 124, 53, 124, 97, 37, 55, 67, 124, 84, 124, 77>>)
    /\ ret.chapter = 1
    /\ ret.message = MSG_ALREADY
    /\ CountOf(readBucket(localStorage, reflectionsKey(<<65>>, 1)), <<84>>, <<97, 124>>) = 1
    /\ \E i \in 1..Len(readBucket(localStorage, reflectionsKey(<<65>>, 1))) :
           readBucket(localStorage, reflectionsKey(<<65>>, 1))[i]
               = importedEntry(<<97, 124>>, 5, <<84>>, <<77>>)

\* The author saveReflectionToGroup writes under.
AuthorOf(ls) ==
    IF Truthy(getItem(ls, STUDENT_NAME_KEY)) THEN getItem(ls, STUDENT_NAME_KEY)[1]
    ELSE ANONYMOUS

\* C6: with a group active, a call of saveReflectionToGroup with a text that
\* does not trim to empty leaves exactly one entry of (author, trimmed text) in
\* the bucket, growing it by one at most; repeated for the same lesson with a
\* text that trims to the same string, it changes nothing.
C6_SaveIdempotent ==
    [][ ( /\ ret'.op = "saveReflectionToGroup"
          /\ Truthy(getGroupId(localStorage))
          /\ ret'.text.type = "string"
          /\ trim(ret'.text.str) # <<>> )
        => LET key == reflectionsKey(getGroupId(localStorage)[1], ret'.chapter)
               old == readBucket(localStorage, key)
               new == readBucket(localStorage', key)
               had == CountOf(old, AuthorOf(localStorage), trim(ret'.text.str))
           IN  /\ CountOf(new, AuthorOf(localStorage), trim(ret'.text.str)) = 1
               /\ Len(new) = IF had = 0 THEN Len(old) + 1 ELSE Len(old)
               /\ ( /\ ret.op = "saveReflectionToGroup"
                    /\ ret.chapter = ret'.chapter
                    /\ ret.text.type = "string"
                    /\ trim(ret.text.str) = trim(ret'.text.str) )
                  => localStorage' = localStorage
      ]_vars

\* " a| " was saved for lesson 1 and the bucket holds the single entry "a|" of
\* the author.
C6_Witness ==
    /\ ret.op = "saveReflectionToGroup"
    /\ ret.text = JSString(<<32, 97, 124, 32>>)
    /\ ret.chapter = 1
    /\ Truthy(getGroupId(localStorage))
    /\ LET b == readBucket(localStorage, reflectionsKey(getGroupId(localStorage)[1], 1))
       IN  Len(b) = 1 /\ CountOf(b, AuthorOf(localStorage), <<97, 124>>) = 1

\* C7: group isolation.  A step taken while the active group is not B changes
\* no bucket of B (no two (group, lesson) pairs share a storage key), and what
\* loadPeerReflections returns while B is active comes from B's bucket of that
\* lesson: an entry appended under another group is never returned under B.
C7_GroupIsolation ==
    [][ /\ \A B \in GroupIds, l \in Lessons :
               getGroupId(localStorage) # <<B>>
                   => readBucket(localStorage', reflectionsKey(B, l))
                          = readBucket(localStorage, reflectionsKey(B, l))
        /\ \A A, B \in GroupIds, k, l \in Lessons :
               reflectionsKey(A, k) = reflectionsKey(B, l) => (A = B /\ k = l)
        /\ \A B \in GroupIds :
               (ret'.op = "loadPeerReflections" /\ getGroupId(localStorage) = <<B>>)
                   => \A i \in 1..Len(ret'.value) :
                          \E j \in 1..Len(readBucket(localStorage,
                                                     reflectionsKey(B, ret'.chapter))) :
                              readBucket(localStorage,
                                         reflectionsKey(B, ret'.chapter))[j] = ret'.value[i]
      ]_vars

\* Entries were appended for lesson 11 under "A"; with "A1" active,
\* loadPeerReflections(1) returned none of them.
C7_Witness ==
    /\ ret.op = "loadPeerReflections"
    /\ ret.chapter = 1
    /\ ret.value = <<>>
    /\ getGroupId(localStorage) = << <<65, 49>> >>
    /\ readBucket(localStorage, reflectionsKey(<<65>>, 11)) # <<>>

\* The positions of bucket b whose student is not the stored display name.
PeerPositions(b, myName) ==
    {i \in 1..Len(b) : myName = <<>> \/ b[i].student # myName[1]}

\* The n-th smallest member of a set of positions.
NthOf(S, n) == CHOOSE j \in S : Cardinality({m \in S : m <= j}) = n

\* C8: loadPeerReflections(lesson) changes nothing stored and returns, in bucket
\* order, exactly the entries of the (active group, lesson) bucket whose student
\* differs from the stored display name: none of the stored name, and the empty
\* sequence when no group is active.
C8_LoadPeerReflections ==
    [][ ret'.op = "loadPeerReflections" =>
          LET g      == getGroupId(localStorage)
              myName == getItem(localStorage, STUDENT_NAME_KEY)
              b      == IF Truthy(g)
                        THEN readBucket(localStorage, reflectionsKey(g[1], ret'.chapter))
                        ELSE <<>>
              peers  == PeerPositions(b, myName)
              v      == ret'.value
          IN  /\ localStorage' = localStorage
              /\ microtasks' = microtasks
              /\ g = <<>> => v = <<>>
              /\ Len(v) = Cardinality(peers)
              /\ \A n \in 1..Len(v) : v[n] = b[NthOf(peers, n)]
              /\ \A n \in 1..Len(v) : myName = <<>> \/ v[n].student # myName[1]
      ]_vars

\* The bucket holds an entry of the stored name "S" and one of a peer, and only
\* the peer's came back.
C8_Witness ==
    /\ ret.op = "loadPeerReflections"
    /\ getItem(localStorage, STUDENT_NAME_KEY) = << <<83>> >>
    /\ Truthy(getGroupId(localStorage))
    /\ LET b == readBucket(localStorage,
                           reflectionsKey(getGroupId(localStorage)[1], ret.chapter))
       IN  /\ Len(b) = 2
           /\ b[1].student = <<83>>
           /\ b[2].student # <<83>>
           /\ ret.value = <<b[2]>>

HasBar(str) == \E i \in 1..Len(str) : str[i] = 124

\* C9: when the payload exportInsightPayload(lesson, mastery) has just returned
\* is imported for that lesson on a device of the same group G, name S and draft
\* T (neither G nor S holding '|') whose (G, lesson) bucket has no entry
\* (S, trim(T)), the import succeeds and appends an entry of text trim(T),
\* student S and the exported mastery.
C9_RoundTrip ==
    [][ ( /\ ret.op = "exportInsightPayload"
          /\ ret.value # <<>>
          /\ ret'.op = "importPeerInsight"
          /\ ret'.payload = JSString(ret.value[1])
          /\ ret'.chapter = ret.chapter )
        => LET G   == getGroupId(localStorage)[1]
               S   == getItem(localStorage, STUDENT_NAME_KEY)[1]
               T   == getItem(localStorage, draftKey(ret.chapter))[1]
               key == reflectionsKey(G, ret.chapter)
               old == readBucket(localStorage, key)
               new == readBucket(localStorage', key)
           IN  (~HasBar(G) /\ ~HasBar(S) /\ CountOf(old, S, trim(T)) = 0)
               => /\ ret'.success
                  /\ Len(new) = Len(old) + 1
                  /\ SubSeq(new, 1, Len(old)) = old
                  /\ new[Len(new)].text = trim(T)
                  /\ new[Len(new)].student = S
                  /\ new[Len(new)].mastery = ret.mastery
      ]_vars

\* The payload exported under "A1" for lesson 1 with mastery was pasted back and
\* stored: the entry ("S", "a|", mastery) ends the ("A1", 1) bucket.
C9_Witness ==
    /\ ret.op = "importPeerInsight"
    /\ ret.success
    /\ ret.chapter = 1
    \* A1|1|7|a%7C|S|M
    /\ ret.payload = JSString(<<65, 49, 124, 49, 124, 55, 124, 97, 37, 55, 67, 124, 83, 124, 77>>)
    /\ LET b == readBucket(localStorage, reflectionsKey(<<65, 49>>, 1))
       IN  /\ b # <<>>
           /\ b[Len(b)] = importedEntry(<<97, 124>>, 7, <<83>>, <<77>>)

\* Whether a field is the decimal representation of an integer: an optional
\* sign and then digits only.
IsDecimalInteger(str) ==
    LET body == IF str # <<>> /\ str[1] \in {43, 45} THEN Tail(str) ELSE str
    IN  body # <<>> /\ \A i \in 1..Len(body) : IsDigit(body[i])

\* C10, as claimed: an import of a payload of six fields or more whose lesson or
\* timestamp field is not the decimal representation of an integer returns
\* "Invalid timestamp or chapter." and commits nothing.
C10_NonNumericRejected ==
    [][ ( /\ ret'.op = "importPeerInsight"
          /\ ret'.payload.type = "string"
          /\ Len(split(ret'.payload.str, 124)) >= 6
          /\ \/ ~IsDecimalInteger(split(ret'.payload.str, 124)[2])
             \/ ~IsDecimalInteger(split(ret'.payload.str, 124)[3]) )
        => /\ ~ret'.success
           /\ ret'.message = MSG_INVALID_NUMBER
           /\ localStorage' = localStorage
      ]_vars

\* C11, as claimed: in every reachable state every entry of every reflection
\* bucket has a text that is non-empty and equal to its own trim.
C11_TextsTrimmed ==
    \A k \in BucketKeys(localStorage) :
        \A i \in 1..Len(localStorage[k]) :
            /\ localStorage[k][i].text # <<>>
            /\ trim(localStorage[k][i].text) = localStorage[k][i].text

\* C12: across every step the previous contents of every bucket is a prefix of
\* its new contents (nothing removed, reordered or modified), and the step adds
\* one entry at most over all buckets.
C12_AppendOnly ==
    [][ /\ \A k \in BucketKeys(localStorage) :
               /\ k \in BucketKeys(localStorage')
               /\ Len(localStorage'[k]) >= Len(localStorage[k])
               /\ SubSeq(localStorage'[k], 1, Len(localStorage[k])) = localStorage[k]
        /\ TotalEntries(localStorage') <= TotalEntries(localStorage) + 1
      ]_vars

\* An import has just put a second entry behind the one a save had stored.
C12_Witness ==
    /\ ret.op = "importPeerInsight"
    /\ ret.success
    /\ LET b == readBucket(localStorage,
                           reflectionsKey(getGroupId(localStorage)[1], ret.chapter))
       IN  /\ Len(b) = 2
           /\ b[1].timestamp = 7
           /\ b[2].timestamp = 5

\* C13: in every reachable state the active group is absent or a non-empty
\* string equal to its own trim; setGroupId(name) with a name that is no string
\* or is whitespace only leaves it as it was, and otherwise sets it to
\* trim(name), whatever it was before.
C13_GroupIdTrimmed ==
    /\ [](\/ getGroupId(localStorage) = <<>>
          \/ /\ getGroupId(localStorage)[1] # <<>>
             /\ trim(getGroupId(localStorage)[1]) = getGroupId(localStorage)[1])
    /\ [][ ret'.op = "setGroupId" =>
             IF ret'.name.type # "string"
                \/ \A i \in 1..Len(ret'.name.str) : IsWhiteSpace(ret'.name.str[i])
             THEN getGroupId(localStorage') = getGroupId(localStorage)
             ELSE getGroupId(localStorage') = << trim(ret'.name.str) >>
       ]_vars

\* setGroupId(" A1 ") has replaced another group by "A1".
C13_Witness ==
    /\ ret.op = "setGroupId"
    /\ ret.name = JSString(<<32, 65, 49, 32>>)
    /\ getGroupId(localStorage) = << <<65, 49>> >>
    /\ readBucket(localStorage, reflectionsKey(<<65>>, 1)) # <<>>

\* C14: setGroupId changes the active-group slot only: every other slot of the
\* store (buckets, drafts, display name) is as it was, so the buckets of a group
\* are found unchanged when it becomes the active group again.
C14_SetGroupIdFrame ==
    [][ ret'.op = "setGroupId" =>
          /\ \A k \in ((DOMAIN localStorage) \cup (DOMAIN localStorage')) \ {GROUP_KEY} :
                 getItem(localStorage', k) = getItem(localStorage, k)
          /\ \A B \in GroupIds, l \in Lessons :
                 readBucket(localStorage', reflectionsKey(B, l))
                     = readBucket(localStorage, reflectionsKey(B, l))
          /\ microtasks' = microtasks
      ]_vars

\* Back in group "A" after entries were stored under "A" and under "A1": the
\* entry of ("A", 1) is where it was, next to a draft and a display name.
C14_Witness ==
    /\ ret.op = "setGroupId"
    /\ ret.name = JSString(<<65>>)
    /\ getGroupId(localStorage) = << <<65>> >>
    /\ readBucket(localStorage, reflectionsKey(<<65>>, 1)) # <<>>
    /\ readBucket(localStorage, reflectionsKey(<<65, 49>>, 1)) # <<>>
    /\ Truthy(getItem(localStorage, STUDENT_NAME_KEY))
    /\ Truthy(getItem(localStorage, draftKey(1)))

\* Whether a text given to saveReflectionToGroup is absent or all whitespace.
TrimsToEmpty(text) ==
    \/ text.type # "string"
    \/ \A i \in 1..Len(text.str) : IsWhiteSpace(text.str[i])

\* C15: saveReflectionToGroup(lesson, text) changes nothing when no group is
\* active or the text trims to empty; otherwise, when the bucket of (active
\* group, lesson) has no entry (author, trimmed text), it appends
\* {text: trimmed text, timestamp: now, student: author} to that bucket and
\* changes nothing else, author being the stored display name or "Anonymous".
C15_SaveReflection ==
    [][ ret'.op = "saveReflectionToGroup" =>
          LET g    == getGroupId(localStorage)
              name == getItem(localStorage, STUDENT_NAME_KEY)
              author == IF name = <<>> \/ name[1] = <<>> THEN ANONYMOUS ELSE name[1]
          IN  IF g = <<>> \/ TrimsToEmpty(ret'.text)
              THEN localStorage' = localStorage
              ELSE LET key == reflectionsKey(g[1], ret'.chapter)
                       old == readBucket(localStorage, key)
                       t   == trim(ret'.text.str)
                   IN  CountOf(old, author, t) = 0
                       => localStorage' =
                              setItem(localStorage, key,
                                      Append(old, [text      |-> t,
                                                   timestamp |-> ret'.now,
                                                   student   |-> author]))
      ]_vars

\* With no display name stored, saveReflectionToGroup(1, " a| ") has appended
\* {"a|", 7, "Anonymous"} to the bucket of ("A", 1).
C15_Witness ==
    /\ ret.op = "saveReflectionToGroup"
    /\ ret.chapter = 1
    /\ ret.text = JSString(<<32, 97, 124, 32>>)
    /\ getItem(localStorage, STUDENT_NAME_KEY) = <<>>
    /\ getGroupId(localStorage) = << <<65>> >>
    /\ LET b == readBucket(localStorage, reflectionsKey(<<65>>, 1))
       IN  /\ b # <<>>
           /\ b[Len(b)] = [text |-> <<97, 124>>, timestamp |-> 7, student |-> ANONYMOUS]

\* Whether a string holds a '%' that is not followed by two hexadecimal digits.
HasMalformedEscape(str) ==
    \E i \in 1..Len(str) :
        /\ str[i] = 37
        /\ ~(i + 2 <= Len(str) /\ IsHexDigit(str[i + 1]) /\ IsHexDigit(str[i + 2]))

\* The messages importPeerInsight can return for an import on lesson l.
ImportMessages(ls, payload, l) ==
    {MSG_INVALID_FORMAT, MSG_INVALID_NUMBER, MSG_EMPTY_TEXT, MSG_ADDED, MSG_ALREADY,
     MSG_FAILED_PARSE}
    \cup (IF payload.type = "string" /\ ~GateFields(payload.str) /\ ~GateNumbers(payload.str)
          THEN {MsgGroupMismatch(split(payload.str, 124)[1], groupText(getGroupId(ls))),
                MsgLessonMismatch(numberToString(parseInt(split(payload.str, 124)[2]).n + 1),
                                  numberToString(l + 1))}
          ELSE {})

\* C16: every import returns a {success, message} record; a payload that is no
\* string, and a payload that reaches the decoding with a malformed
\* percent-escape in its text field, get {success: false, "Failed to parse.
\* Share via WhatsApp exactly as sent."}, and that result always leaves the
\* store as it was.
C16_ImportTotal ==
    [][ ret'.op = "importPeerInsight" =>
          LET p == ret'.payload
              threw == \/ p.type # "string"
                       \/ /\ ~GateFields(p.str)
                          /\ ~GateNumbers(p.str)
                          /\ ~GateGroup(localStorage, p.str)
                          /\ ~GateLesson(p.str, ret'.chapter)
                          /\ HasMalformedEscape(split(p.str, 124)[4])
          IN  /\ ret'.success \in BOOLEAN
              /\ ret'.message \in ImportMessages(localStorage, p, ret'.chapter)
              /\ threw => ret'.message = MSG_FAILED_PARSE
              /\ ret'.message = MSG_FAILED_PARSE
                     => (~ret'.success /\ localStorage' = localStorage)
      ]_vars

\* "A|1|5|%|T|M" was pasted on lesson 1 of group "A": its text field made
\* decodeURIComponent throw, and the catch-all result came back.
C16_Witness ==
    /\ ret.op = "importPeerInsight"
    /\ ret.payload = JSString(<<65, 124, 49, 124, 53, 124, 37, 124, 84, 124, 77>>)
    /\ ret.chapter = 1
    /\ getGroupId(localStorage) = << <<65>> >>
    /\ ~ret.success
    /\ ret.message = MSG_FAILED_PARSE

\* Whether a getItem result is null or the empty string.
Unset(item) == item = <<>> \/ item[1] = <<>>

\* C17, as claimed: exportInsightPayload(lesson, mastery) changes nothing
\* stored; it returns null when the active group, the display name or the draft
\* of the lesson is unset, and otherwise returns the six fields
\* group|lesson|timestamp|percent-encoded text|name|flag, the flag being 'M' when
\* mastery is true and 'N' when it is not.
C17_ExportPayload ==
    [][ ret'.op = "exportInsightPayload" =>
          LET g == getGroupId(localStorage)
              n == getItem(localStorage, STUDENT_NAME_KEY)
              d == getItem(localStorage, draftKey(ret'.chapter))
          IN  /\ localStorage' = localStorage
              /\ microtasks' = microtasks
              /\ ~ret'.threw
              /\ IF Unset(g) \/ Unset(n) \/ Unset(d)
                 THEN ret'.value = <<>>
                 ELSE /\ ret'.value # <<>>
                      /\ LET parts == split(ret'.value[1], 124) IN
                         /\ Len(parts) = 6
                         /\ parts[1] = g[1]
                         /\ parts[2] = numberToString(ret'.chapter)
                         /\ parts[3] = numberToString(ret'.now)
                         /\ \A i \in 1..Len(parts[4]) :
                                IsUriUnreserved(parts[4][i]) \/ parts[4][i] = 37
                                \/ IsHexDigit(parts[4][i])
                         /\ decodeURIComponent(parts[4])
                                = [threw |-> FALSE, value |-> trim(d[1])]
                         /\ parts[5] = n[1]
                         /\ parts[6] = IF ret'.mastery THEN <<77>> ELSE <<78>>
      ]_vars

\* Whether bucket b holds the text under a student other than this one.
OtherStudentHas(b, student, text) ==
    \E i \in 1..Len(b) : b[i].text = text /\ b[i].student # student

\* C18: an entry of the same text under another student does not make a save
\* or an import a duplicate: when the bucket holds (S1, T) with S1 # S2 and no
\* (S2, T), an import of (S2, T) that passes the earlier gates succeeds, and a
\* save of T by S2 is stored; either puts (S2, T) at the end of the same bucket.
C18_DedupPerStudent ==
    [][ /\ ( /\ ret'.op = "importPeerInsight"
             /\ ret'.payload.type = "string"
             /\ ~GateFields(ret'.payload.str)
             /\ ~GateNumbers(ret'.payload.str)
             /\ ~GateGroup(localStorage, ret'.payload.str)
             /\ ~GateLesson(ret'.payload.str, ret'.chapter)
             /\ GateDecodes(ret'.payload.str)
             /\ ~GateText(ret'.payload.str) )
           => LET parts == split(ret'.payload.str, 124)
                  T     == decodeURIComponent(parts[4]).value
                  key   == reflectionsKey(getGroupId(localStorage)[1], ret'.chapter)
                  old   == readBucket(localStorage, key)
                  new   == readBucket(localStorage', key)
              IN  (OtherStudentHas(old, parts[5], T) /\ CountOf(old, parts[5], T) = 0)
                  => /\ ret'.success
                     /\ Len(new) = Len(old) + 1
                     /\ SubSeq(new, 1, Len(old)) = old
                     /\ new[Len(new)].student = parts[5]
                     /\ new[Len(new)].text = T
        /\ ( /\ ret'.op = "saveReflectionToGroup"
             /\ getGroupId(localStorage) # <<>>
             /\ ~TrimsToEmpty(ret'.text) )
           => LET T   == trim(ret'.text.str)
                  S2  == AuthorOf(localStorage)
                  key == reflectionsKey(getGroupId(localStorage)[1], ret'.chapter)
                  old == readBucket(localStorage, key)
                  new == readBucket(localStorage', key)
              IN  (OtherStudentHas(old, S2, T) /\ CountOf(old, S2, T) = 0)
                  => /\ Len(new) = Len(old) + 1
                     /\ SubSeq(new, 1, Len(old)) = old
                     /\ new[Len(new)].student = S2
                     /\ new[Len(new)].text = T
      ]_vars

\* The bucket of ("A", 1) held ("S", "a|"); the import of ("T", "a|") succeeded
\* and the bucket holds both.
C18_Witness ==
    /\ ret.op = "importPeerInsight"
    /\ ret.success
    /\ ret.chapter = 1
    /\ LET b == readBucket(localStorage, reflectionsKey(<<65>>, 1))
       IN  /\ Len(b) = 2
           /\ b[1].student = <<83>> /\ b[1].text = <<97, 124>>
           /\ b[2].student = <<84>> /\ b[2].text = <<97, 124>>

\* The questions of a quiz of n whose given answer is the answer-key option.
RightQuestions(n, answers) == {i \in 1..n : answers[i] = <<QuizKey(n)[i]>>}

\* C19: evaluateQuiz returns as score the number of questions whose given
\* answer is the answer-key option, between 0 and N, with that many entries in
\* correctList and N - score in incorrectList, and mastery true exactly when
\* the score is 15 or more.
C19_EvaluateQuiz ==
    ret.op = "evaluateQuiz" =>
        /\ ret.score = Cardinality(RightQuestions(ret.n, ret.answers))
        /\ ret.score >= 0 /\ ret.score <= ret.n
        /\ Len(ret.correctList) = ret.score
        /\ Len(ret.incorrectList) = ret.n - ret.score
        /\ ret.mastery = (ret.score >= 15)
        /\ {ret.correctList[j].id : j \in 1..Len(ret.correctList)}
               = RightQuestions(ret.n, ret.answers)

\* 15 right answers of 20: mastery.
C19_Witness ==
    /\ ret.op = "evaluateQuiz"
    /\ ret.n = 20
    /\ ret.score = 15
    /\ ret.mastery
    /\ Len(ret.incorrectList) = 5

\* C20: an import that succeeds returns "Peer insight added successfully!" and
\* appends exactly one entry at the end of the bucket of (active group,
\* importing lesson), every other slot staying as it was: its text is the
\* percent-decoded field 4, its timestamp the integer parsed from field 3, its
\* student field 5, and its mastery true exactly when field 6 is "M".
C20_ImportedEntry ==
    [][ (ret'.op = "importPeerInsight" /\ ret'.success) =>
          LET parts == split(ret'.payload.str, 124)
              key   == reflectionsKey(getGroupId(localStorage)[1], ret'.chapter)
              old   == readBucket(localStorage, key)
          IN  /\ ret'.message = MSG_ADDED
              /\ localStorage' =
                     setItem(localStorage, key,
                             Append(old, [text      |-> decodeURIComponent(parts[4]).value,
                                          timestamp |-> parseInt(parts[3]).n,
                                          student   |-> parts[5],
                                          mastery   |-> parts[6] = <<77>>]))
              /\ TotalEntries(localStorage') = TotalEntries(localStorage) + 1
      ]_vars

\* The payload exported without mastery under "A1" was pasted back: the entry
\* that ends the bucket of ("A1", 1) has the payload's text, timestamp and
\* student, and mastery false.
C20_Witness ==
    /\ ret.op = "importPeerInsight"
    /\ ret.success
    /\ ret.chapter = 1
    \* A1|1|7|a%7C|S|N
    /\ ret.payload = JSString(<<65, 49, 124, 49, 124, 55, 124, 97, 37, 55, 67, 124, 83, 124, 78>>)
    /\ LET b == readBucket(localStorage, reflectionsKey(<<65, 49>>, 1))
       IN  /\ b # <<>>
           /\ b[Len(b)] = [text |-> <<97, 124>>, timestamp |-> 7, student |-> <<83>>,
                           mastery |-> FALSE]

\* Whether a bucket entry was pushed by saveReflectionToGroup: those entries
\* have no mastery field.
SavedHere(entry) == DOMAIN entry = {"text", "timestamp", "student"}

\* C22, as claimed: loadPeerReflections returns no entry that
\* saveReflectionToGroup pushed under the author the device has now, the
\* stored display name or, when none is stored, "Anonymous".
C22_OwnEntriesExcluded ==
    [][ ret'.op = "loadPeerReflections" =>
          \A i \in 1..Len(ret'.value) :
              SavedHere(ret'.value[i]) => ret'.value[i].student # AuthorOf(localStorage)
      ]_vars

\* Whether the banner stands somewhere in a text.
HasBanner(text) == \E i \in 1..Len(text) : BannerAt(text, i)

\* C21: when the text given to handlePeerImport is the message exportMyInsights
\* built around a payload p (banner, blank line, p, blank line, trailer), the
\* payload passed to importPeerInsight is exactly p, and the store and the
\* value returned are those of importPeerInsight(p, lesson); when the text holds
\* no banner, the whole trimmed text is passed.
C21_WrapperTransparent ==
    [][ (ret'.op = "doImportClick" /\ ret'.called) =>
          /\ \A p \in {PEER_PAYLOAD} \cup
                      (IF ret.op = "exportMyInsights" /\ ret.payload # <<>>
                       THEN {ret.payload[1]} ELSE {}) :
                 ret'.rawText = insightMessage(p)
                 => LET direct == importPeerInsight(localStorage, JSString(p), ret'.chapter)
                    IN  /\ ret'.passed = <<p>>
                        /\ localStorage' = direct.store
                        /\ ret'.value = <<direct.success>>
          /\ ~HasBanner(ret'.rawText) => ret'.passed = <<trim(ret'.rawText)>>
      ]_vars

\* The message shared under "A1" was pasted back whole: "A1|1|7|a%7C|S|M" was
\* passed on and stored.
C21_Witness ==
    /\ ret.op = "doImportClick"
    /\ ret.called
    /\ ret.rawText = insightMessage(<<65, 49, 124, 49, 124, 55, 124, 97, 37, 55, 67,
                                      124, 83, 124, 77>>)
    /\ ret.passed = << <<65, 49, 124, 49, 124, 55, 124, 97, 37, 55, 67, 124, 83, 124, 77>> >>
    /\ ret.value = <<TRUE>>
    /\ readBucket(localStorage, reflectionsKey(<<65, 49>>, 1)) # <<>>

\* "lesson_start"
LESSON_START == <<108, 101, 115, 115, 111, 110, 95, 115, 116, 97, 114, 116>>

\* C23, as claimed: when the name form is saved with a name and teacher mode
\* checked, the click handler's logEvent('lesson_start') finds analytics
\* enabled: the event buffer ends with a lesson_start event that the click has
\* added to it.
C23_TeacherStartLogged ==
    [][ ( /\ ret'.op = "saveFirstClick"
          /\ ret'.isTeacher
          /\ trim(ret'.nameInput) # <<>> )
        => LET old == readBucket(localStorage, EVENTS_STORAGE_KEY)
               new == readBucket(localStorage', EVENTS_STORAGE_KEY)
           IN  /\ Len(new) = Len(old) + 1
               /\ SubSeq(new, 1, Len(old)) = old
               /\ new[Len(new)].type = LESSON_START
      ]_vars

====
